---- MODULE Spec2Model ----
(***************************************************************************)
(* A model of the GPU abstraction layer of wlx-overlay-s                    *)
(* (src/src/graphics.rs): device selection in WlxGraphics::new, the        *)
(* dma-buf import of WlxGraphics::dmabuf_texture, the pre-recorded WlxPass *)
(* and the WlxCommandBuffer builder with its submission paths.             *)
(*                                                                         *)
(* Option<T> is modelled as a sequence: <<>> is None, <<x>> is Some(x).    *)
(* A panic (unwrap / expect / panic! / debug_assert!) is the control       *)
(* state "panic" of the operation it happens in.                           *)
(***************************************************************************)
EXTENDS Naturals, Sequences, FiniteSets

VARIABLES
    \* ---- WlxGraphics::new ----
    new_pc,            \* position inside WlxGraphics::new
    enumerated,        \* per enumerated device: where the filters left it, and the
                       \* class of a survivor
    best,              \* the accumulator of min_by_key: Option<(p, my_extensions, i)>
    best_runtime,      \* what vk_device_extensions_fn returned for the device in best
    device,            \* Option<logical device>: what Device::new was asked to create
    \* ---- WlxGraphics::dmabuf_texture ----
    dma_pc,            \* position inside dmabuf_texture
    frame,             \* the DmabufFrame argument
    format,            \* Option<Format>: the result of the fourcc match
    image,             \* Option<RawImage / Image>
    caller_fd,         \* the descriptor in frame.planes[0]: "absent", "open", "closed"
    new_file,          \* the duplicate made by try_clone: "none", "open", "imported", "closed"
    dups_made,         \* try_clone calls that returned a duplicate in this call
    imports,           \* DeviceMemory::import calls made in this call
    dma_result,        \* "-" until the call returns, then "None" or "Some"
    \* ---- WlxPass, WlxCommandBuffer, the queue ----
    cmd_pc,            \* position of the calling thread: "idle" between calls
    passes,            \* the WlxPass objects built so far
    cb,                \* Option<WlxCommandBuffer>: the builder being recorded into
    last_built,        \* Option<recording>: what build() returned last
    panic_in,          \* the operation whose unwrap panicked, "" if none
    exec,              \* Option<CommandBufferExecFuture>: the local `exec`, or the
                       \* token being dropped
    futures,           \* the tokens build_and_execute returned that the caller holds
    queue,             \* the one queue: submitted recordings, oldest first
    next_id,           \* recordings are numbered as they are built for execution
    completed,         \* ids of the recordings the GPU has finished
    now_returned,      \* ids whose build_and_execute_now call has returned
    \* ---- reference-counted objects ----
    held,              \* the objects the caller holds a handle (an Arc) to
    freed,             \* the objects whose last handle is gone: they are destroyed
    \* ---- WlxGraphics::transition_layout ----
    tl_command_buffer, \* Option<UnsafeCommandBuffer>: the local `command_buffer`
    fence,             \* Option<Fence>: the local `fence`
    fences,            \* the fences transition_layout has returned to the caller
    signaled,          \* the fences the device has signaled
    \* ---- WlxCommandBuffer::texture2d ----
    textures           \* per texture2d call: its staging buffer and its image

new_vars == <<new_pc, enumerated, best, best_runtime, device>>

dma_vars == <<dma_pc, frame, format, image, caller_fd, new_file, dups_made, imports,
              dma_result>>

cmd_vars == <<cmd_pc, passes, cb, last_built, panic_in, exec, futures, queue, next_id,
              completed, now_returned>>

own_vars == <<held, freed>>

sync_vars == <<tl_command_buffer, fence, fences, signaled>>

vars == <<new_vars, dma_vars, cmd_vars, own_vars, sync_vars, textures>>

None == <<>>
Some(x) == <<x>>
IsSome(o) == o /= <<>>
Unwrap(o) == o[1]

(***************************************************************************)
(* WlxGraphics::new : physical device selection                            *)
(***************************************************************************)

\* The most devices one enumeration yields.
MaxDevices == 3

\* DeviceExtensions is a set of flags; the model keeps the flags the code names
\* plus one flag only an XR runtime would ask for.
RuntimeOnlyExtension == "khr_external_semaphore_fd"

\* graphics.rs:140-147, the fixed set the application itself needs.
device_extensions ==
    { "khr_swapchain",
      "khr_external_memory",
      "khr_external_memory_fd",
      "ext_external_memory_dma_buf",
      "ext_image_drm_format_modifier" }

AllExtensions == device_extensions \cup {RuntimeOnlyExtension}

\* What a physical device may report as supported.
SupportedChoices ==
    { AllExtensions,
      device_extensions,
      AllExtensions \ {"ext_image_drm_format_modifier"},
      device_extensions \ {"khr_external_memory_fd"} }

\* What the caller's vk_device_extensions_fn may return for a device.
RuntimeChoices == { {}, {RuntimeOnlyExtension}, {RuntimeOnlyExtension, "khr_swapchain"} }

DeviceTypes == { "DiscreteGpu", "IntegratedGpu", "VirtualGpu", "Cpu", "Other", "Unknown" }

\* One queue family: its GRAPHICS flag and the result of surface_support for it.
QueueFamily(g, s) == [graphics |-> g, surface_support |-> s]

\* The queue family lists a device may report.
QueueFamilyChoices ==
    { << >>,
      << QueueFamily(TRUE, "Ok(true)") >>,
      << QueueFamily(TRUE, "Ok(false)") >>,
      << QueueFamily(FALSE, "Ok(true)"), QueueFamily(TRUE, "Err") >>,
      << QueueFamily(TRUE, "Ok(false)"), QueueFamily(TRUE, "Ok(true)") >>,
      << QueueFamily(FALSE, "Ok(true)"), QueueFamily(TRUE, "Ok(true)"),
         QueueFamily(TRUE, "Ok(true)") >> }

\* Union as it would be if the application's own set were left out.
UnionRuntimeOnly(a, b) == a

\* DeviceExtensions::union and DeviceExtensions::contains.
Union(a, b) == a \cup b
Contains(a, b) == b \subseteq a

\* Result<bool, _>::unwrap_or(false)
UnwrapOrFalse(r) == r = "Ok(true)"

\* ExtensionFilter as it would be if only the application's own set were tested.
ExtensionFilterFixedOnly(p, runtime_extensions) ==
    LET my_extensions == runtime_extensions \cup device_extensions
    IN  IF device_extensions \subseteq p.supported_extensions
        THEN <<(<<p, my_extensions>>)>>
        ELSE <<>>

\* graphics.rs:161-174, the first filter_map: Some((p, my_extensions)) or None.
ExtensionFilter(p, runtime_extensions) ==
    LET my_extensions == Union(runtime_extensions, device_extensions)
    IN  IF Contains(p.supported_extensions, my_extensions)
        THEN Some(<<p, my_extensions>>)
        ELSE None

\* QueueFamilySuitable as it would be with the two tests joined by "or".
QueueFamilySuitableEither(q) ==
    q.graphics \/ (q.surface_support = "Ok(true)")

\* graphics.rs:179-182, the predicate handed to position().
QueueFamilySuitable(q) ==
    q.graphics /\ UnwrapOrFalse(q.surface_support)

\* Iterator::position : Some(index of the first element satisfying the
\* predicate) or None.  Indices are 0-based as in the code.
Position(families) ==
    LET hits == { i \in 1..Len(families) : QueueFamilySuitable(families[i]) }
    IN  IF hits = {}
        THEN None
        ELSE Some((CHOOSE i \in hits : \A j \in hits : i <= j) - 1)

\* graphics.rs:175-184, the second filter_map: Some((p, my_extensions, i)) or None.
QueueFamilyFilter(p, my_extensions) ==
    LET pos == Position(p.queue_family_properties)
    IN  IF IsSome(pos)
        THEN Some(<<p, my_extensions, Unwrap(pos)>>)
        ELSE None

\* graphics.rs:185-192, the key of min_by_key.
DeviceTypeRank(t) ==
    CASE t = "DiscreteGpu"   -> 0
      [] t = "IntegratedGpu" -> 1
      [] t = "VirtualGpu"    -> 2
      [] t = "Cpu"           -> 3
      [] t = "Other"         -> 4
      [] OTHER               -> 5

\* MinByKeyStep as it would be if an equal key replaced the accumulator
\* (the behaviour of max_by_key turned around: the last minimum wins).
MinByKeyStepLast(acc, item) ==
    IF acc = <<>>
    THEN <<item>>
    ELSE IF DeviceTypeRank(acc[1][1].device_type) >= DeviceTypeRank(item[1].device_type)
         THEN <<item>>
         ELSE acc

\* One step of Iterator::min_by_key: the accumulator is replaced only by a
\* strictly smaller key, so the first of several minima is kept.
MinByKeyStep(acc, item) ==
    IF acc = None
    THEN Some(item)
    ELSE IF DeviceTypeRank(Unwrap(acc)[1].device_type) > DeviceTypeRank(item[1].device_type)
         THEN Some(item)
         ELSE acc

\* A physical device as enumerate_physical_devices yields it; id is its place
\* in the enumeration (0-based).
PhysicalDevice(id, t, supported, families) ==
    [ id |-> id, device_type |-> t, supported_extensions |-> supported,
      queue_family_properties |-> families ]

\* graphics.rs:120-157: the Vulkan library, the instance, the window, the
\* surface and the enumeration itself are each unwrapped.
NewCreateInstance(ok) ==
    /\ new_pc = "start"
    /\ new_pc' = IF ok THEN "enumerating" ELSE "panic"
    /\ UNCHANGED <<enumerated, best, best_runtime, device>>
    /\ UNCHANGED <<dma_vars, cmd_vars>>
    /\ UNCHANGED <<own_vars, sync_vars, textures>>

\* Where the lazy iterator chain of graphics.rs:155-192 leaves one device.
DeviceFate(p, runtime_extensions) ==
    LET e == ExtensionFilter(p, runtime_extensions)
    IN  IF e = None THEN "no_extensions"
        ELSE IF QueueFamilyFilter(Unwrap(e)[1], Unwrap(e)[2]) = None THEN "no_queue_family"
        ELSE "survivor"

\* graphics.rs:155-192: the iterator chain is lazy, so each enumerated device
\* goes through both filter_maps and then into the min_by_key accumulator
\* before the next one is looked at.
NewNextDevice(t, supported, families, runtime_extensions) ==
    /\ new_pc = "enumerating"
    /\ Len(enumerated) < MaxDevices
    /\ LET p == PhysicalDevice(Len(enumerated), t, supported, families)
           e == ExtensionFilter(p, runtime_extensions)
           q == IF e = None THEN None
                ELSE QueueFamilyFilter(Unwrap(e)[1], Unwrap(e)[2])
           fate == DeviceFate(p, runtime_extensions)
       IN  /\ best' = IF q = None THEN best ELSE MinByKeyStep(best, Unwrap(q))
           /\ best_runtime' = IF best' = best THEN best_runtime ELSE runtime_extensions
           /\ enumerated' = Append(enumerated,
                  [fate |-> fate, device_type |-> IF fate = "survivor" THEN Some(t) ELSE None])
    /\ UNCHANGED <<new_pc, device>>
    /\ UNCHANGED <<dma_vars, cmd_vars>>
    /\ UNCHANGED <<own_vars, sync_vars, textures>>

\* graphics.rs:193: min_by_key has consumed the enumeration; expect() unwraps
\* its result.
NewExpect ==
    /\ new_pc = "enumerating"
    /\ new_pc' = IF best = None THEN "panic" ELSE "selected"
    /\ UNCHANGED <<enumerated, best, best_runtime, device>>
    /\ UNCHANGED <<dma_vars, cmd_vars>>
    /\ UNCHANGED <<own_vars, sync_vars, textures>>

\* What graphics.rs:204-219 asks Device::new for.
DeviceCreateInfo(physical_device, my_extensions, queue_family_index) ==
    [ physical_device |-> physical_device,
      enabled_extensions |-> my_extensions,
      queue_create_infos |-> << queue_family_index >> ]

\* graphics.rs:204-221: Device::new(...).unwrap() and the one queue.
NewCreateDevice(ok) ==
    /\ new_pc = "selected"
    /\ LET physical_device == Unwrap(best)[1]
           my_extensions == Unwrap(best)[2]
           queue_family_index == Unwrap(best)[3]
       IN  IF ok
           THEN /\ device' = Some(DeviceCreateInfo(physical_device, my_extensions,
                                                   queue_family_index))
                /\ new_pc' = "device_created"
           ELSE /\ device' = device
                /\ new_pc' = "panic"
    /\ UNCHANGED <<enumerated, best, best_runtime>>
    /\ UNCHANGED <<dma_vars, cmd_vars>>
    /\ UNCHANGED <<own_vars, sync_vars, textures>>

\* graphics.rs:223-296: the allocators, the unit quad buffers (each unwrapped)
\* and the returned Arc<Self>.
NewReturn(ok) ==
    /\ new_pc = "device_created"
    /\ new_pc' = IF ok THEN "constructed" ELSE "panic"
    /\ UNCHANGED <<enumerated, best, best_runtime, device>>
    /\ UNCHANGED <<dma_vars, cmd_vars>>
    /\ UNCHANGED <<own_vars, sync_vars, textures>>

(***************************************************************************)
(* WlxGraphics::dmabuf_texture : zero-copy import of a shared frame        *)
(***************************************************************************)

\* Plane slots of a DmabufFrame; num_planes says how many of them are used.
MaxPlanes == 2

SupportedFourcc ==
    { "DRM_FORMAT_ABGR8888", "DRM_FORMAT_XBGR8888",
      "DRM_FORMAT_ARGB8888", "DRM_FORMAT_XRGB8888" }

\* The codes a frame may carry: the supported ones and two others.
FourccChoices == SupportedFourcc \cup { "DRM_FORMAT_RGB565", "DRM_FORMAT_NV12" }

ExtentChoices == { 0, 64 }

ModifierChoices == { "LINEAR", "VENDOR_TILED" }

FramePlane(fd) == [fd |-> fd, offset |-> 0, stride |-> 256]

PlaneChoices == { FramePlane(<<>>), FramePlane(<<7>>) }

\* Every frame descriptor the capture side may hand over.
Frames ==
    { [ format |-> [width |-> w, height |-> h, fourcc |-> c, modifier |-> m],
        num_planes |-> n,
        planes |-> pl ] :
        w \in ExtentChoices, h \in ExtentChoices, c \in FourccChoices,
        m \in ModifierChoices, n \in 0..MaxPlanes,
        pl \in [1..MaxPlanes -> PlaneChoices] }

\* FourccFormat with the two families swapped.
FourccFormatSwapped(fourcc) ==
    CASE fourcc = "DRM_FORMAT_ABGR8888" -> <<"B8G8R8A8_UNORM">>
      [] fourcc = "DRM_FORMAT_XBGR8888" -> <<"R8G8B8A8_UNORM">>
      [] fourcc = "DRM_FORMAT_ARGB8888" -> <<"B8G8R8A8_UNORM">>
      [] fourcc = "DRM_FORMAT_XRGB8888" -> <<"B8G8R8A8_UNORM">>
      [] OTHER                          -> <<"R8G8B8A8_UNORM">>

\* graphics.rs:414-420: Some(format), or None where the match panics.
FourccFormat(fourcc) ==
    CASE fourcc = "DRM_FORMAT_ABGR8888" -> Some("R8G8B8A8_UNORM")
      [] fourcc = "DRM_FORMAT_XBGR8888" -> Some("R8G8B8A8_UNORM")
      [] fourcc = "DRM_FORMAT_ARGB8888" -> Some("B8G8R8A8_UNORM")
      [] fourcc = "DRM_FORMAT_XRGB8888" -> Some("B8G8R8A8_UNORM")
      [] OTHER                          -> None

\* graphics.rs:422-434: one SubresourceLayout per used plane.
PlaneLayouts(f) ==
    [ i \in 1..f.num_planes |->
        [offset |-> f.planes[i].offset, size |-> 0, row_pitch |-> f.planes[i].stride] ]

\* graphics.rs:438-450: the ImageCreateInfo handed to RawImage::new.
ImageCreateInfo(f, fmt) ==
    [ image_type |-> "Dim2d",
      format |-> fmt,
      extent |-> <<f.format.width, f.format.height, 1>>,
      usage |-> {"SAMPLED", "TRANSFER_SRC"},
      external_memory_handle_types |-> {"DMA_BUF"},
      tiling |-> "DrmFormatModifier",
      drm_format_modifiers |-> <<f.format.modifier>>,
      drm_format_modifier_plane_layouts |-> PlaneLayouts(f) ]

\* RawImage::new refuses an extent with a zero in it before the driver is
\* asked; whatever else the driver refuses is the input driver_ok.
ImageCreateInfoValid(info) ==
    \A i \in 1..3 : info.extent[i] > 0

\* graphics.rs:463-465, the three debug assertions.
DebugAssertionsHold(enabled_extensions) ==
    /\ "khr_external_memory_fd" \in enabled_extensions
    /\ "khr_external_memory" \in enabled_extensions
    /\ "ext_external_memory_dma_buf" \in enabled_extensions

\* graphics.rs:411-412: the call; frame is moved in.
DmaCall(f) ==
    /\ new_pc = "constructed"
    /\ dma_pc \in {"idle", "returned"}
    /\ dma_pc' = "fourcc"
    /\ frame' = f
    /\ format' = None
    /\ image' = None
    /\ caller_fd' = IF f.planes[1].fd = None THEN "absent" ELSE "open"
    /\ new_file' = "none"
    /\ dups_made' = 0
    /\ imports' = 0
    /\ dma_result' = "-"
    /\ UNCHANGED <<new_vars, cmd_vars>>
    /\ UNCHANGED <<own_vars, sync_vars, textures>>

\* graphics.rs:414-420
DmaMatchFourcc ==
    /\ dma_pc = "fourcc"
    /\ format' = FourccFormat(frame.format.fourcc)
    /\ dma_pc' = IF format' = None THEN "panic" ELSE "image"
    /\ UNCHANGED <<frame, image, caller_fd, new_file, dups_made, imports, dma_result>>
    /\ UNCHANGED <<new_vars, cmd_vars>>
    /\ UNCHANGED <<own_vars, sync_vars, textures>>

\* graphics.rs:422-452: the plane layouts and RawImage::new(...).unwrap()
DmaCreateImage(driver_ok) ==
    /\ dma_pc = "image"
    /\ LET info == ImageCreateInfo(frame, Unwrap(format))
       IN  IF ImageCreateInfoValid(info) /\ driver_ok
           THEN /\ image' = Some([info |-> info, memory |-> "unbound"])
                /\ dma_pc' = "memory_type"
           ELSE /\ image' = image
                /\ dma_pc' = "panic"
    /\ UNCHANGED <<frame, format, caller_fd, new_file, dups_made, imports, dma_result>>
    /\ UNCHANGED <<new_vars, cmd_vars>>
    /\ UNCHANGED <<own_vars, sync_vars, textures>>

\* graphics.rs:454-461: find_memory_type_index(...).unwrap()
DmaFindMemoryType(found) ==
    /\ dma_pc = "memory_type"
    /\ dma_pc' = IF found THEN "asserts" ELSE "panic"
    /\ UNCHANGED <<frame, format, image, caller_fd, new_file, dups_made, imports, dma_result>>
    /\ UNCHANGED <<new_vars, cmd_vars>>
    /\ UNCHANGED <<own_vars, sync_vars, textures>>

\* graphics.rs:463-465: checked in a build with debug assertions only.
DmaDebugAsserts(debug_assertions) ==
    /\ dma_pc = "asserts"
    /\ dma_pc' = IF debug_assertions /\ ~DebugAssertionsHold(Unwrap(device).enabled_extensions)
                 THEN "panic"
                 ELSE "planes"
    /\ UNCHANGED <<frame, format, image, caller_fd, new_file, dups_made, imports, dma_result>>
    /\ UNCHANGED <<new_vars, cmd_vars>>
    /\ UNCHANGED <<own_vars, sync_vars, textures>>

\* graphics.rs:468-471
DmaCheckPlanes ==
    /\ dma_pc = "planes"
    /\ IF frame.num_planes /= 1
       THEN /\ dma_pc' = "returned"
            /\ dma_result' = "None"
       ELSE /\ dma_pc' = "fd"
            /\ dma_result' = dma_result
    /\ UNCHANGED <<frame, format, image, caller_fd, new_file, dups_made, imports>>
    /\ UNCHANGED <<new_vars, cmd_vars>>
    /\ UNCHANGED <<own_vars, sync_vars, textures>>

\* graphics.rs:472-475
DmaCheckFd ==
    /\ dma_pc = "fd"
    /\ IF frame.planes[1].fd = None
       THEN /\ dma_pc' = "returned"
            /\ dma_result' = "None"
       ELSE /\ dma_pc' = "dup"
            /\ dma_result' = dma_result
    /\ UNCHANGED <<frame, format, image, caller_fd, new_file, dups_made, imports>>
    /\ UNCHANGED <<new_vars, cmd_vars>>
    /\ UNCHANGED <<own_vars, sync_vars, textures>>

\* DmaDupFd as it would be without file.into_raw_fd(): `file` would be
\* dropped at the end of the block and close the caller's descriptor.
DmaDupFdConsumes(ok) ==
    /\ dma_pc = "dup"
    /\ new_file' = IF ok THEN "open" ELSE new_file
    /\ dups_made' = IF ok THEN dups_made + 1 ELSE dups_made
    /\ caller_fd' = "closed"
    /\ dma_pc' = IF ok THEN "import" ELSE "panic"
    /\ UNCHANGED <<frame, format, image, imports, dma_result>>
    /\ UNCHANGED <<new_vars, cmd_vars>>
    /\ UNCHANGED <<own_vars, sync_vars, textures>>

\* graphics.rs:477-479: File::from_raw_fd, try_clone().unwrap(), into_raw_fd.
\* When try_clone fails the unwinding drops `file`, which closes the
\* caller's descriptor.
DmaDupFd(ok) ==
    /\ dma_pc = "dup"
    /\ IF ok
       THEN /\ new_file' = "open"
            /\ dups_made' = dups_made + 1
            /\ caller_fd' = caller_fd
            /\ dma_pc' = "import"
       ELSE /\ new_file' = new_file
            /\ dups_made' = dups_made
            /\ caller_fd' = "closed"
            /\ dma_pc' = "panic"
    /\ UNCHANGED <<frame, format, image, imports, dma_result>>
    /\ UNCHANGED <<new_vars, cmd_vars>>
    /\ UNCHANGED <<own_vars, sync_vars, textures>>

\* DmaImport as it would be if a failed import were answered with None.
DmaImportOptional(ok) ==
    /\ dma_pc = "import"
    /\ imports' = imports + 1
    /\ new_file' = IF ok THEN "imported" ELSE "closed"
    /\ dma_pc' = IF ok THEN "bind" ELSE "returned"
    /\ dma_result' = IF ok THEN dma_result ELSE "None"
    /\ UNCHANGED <<frame, format, image, caller_fd, dups_made>>
    /\ UNCHANGED <<new_vars, cmd_vars>>
    /\ UNCHANGED <<own_vars, sync_vars, textures>>

\* graphics.rs:481-494: DeviceMemory::import(...).unwrap(); new_file is moved
\* into the import either way.
DmaImport(ok) ==
    /\ dma_pc = "import"
    /\ imports' = imports + 1
    /\ new_file' = IF ok THEN "imported" ELSE "closed"
    /\ dma_pc' = IF ok THEN "bind" ELSE "panic"
    /\ UNCHANGED <<frame, format, image, caller_fd, dups_made, dma_result>>
    /\ UNCHANGED <<new_vars, cmd_vars>>
    /\ UNCHANGED <<own_vars, sync_vars, textures>>

\* DmaBind as it would be with bind_memory(...).unwrap().
DmaBindUnwrap(ok) ==
    /\ dma_pc = "bind"
    /\ image' = IF ok THEN <<[image[1] EXCEPT !.memory = "dedicated_import"]>> ELSE image
    /\ dma_result' = IF ok THEN "Some" ELSE dma_result
    /\ new_file' = new_file
    /\ dma_pc' = IF ok THEN "returned" ELSE "panic"
    /\ UNCHANGED <<frame, format, caller_fd, dups_made, imports>>
    /\ UNCHANGED <<new_vars, cmd_vars>>
    /\ UNCHANGED <<own_vars, sync_vars, textures>>

\* graphics.rs:497-504: bind_memory(...).ok() decides between Some and None;
\* a failed bind drops the image and the imported memory with it.
DmaBind(ok) ==
    /\ dma_pc = "bind"
    /\ IF ok
       THEN /\ image' = Some([Unwrap(image) EXCEPT !.memory = "dedicated_import"])
            /\ dma_result' = "Some"
            /\ new_file' = new_file
       ELSE /\ image' = None
            /\ dma_result' = "None"
            /\ new_file' = "closed"
    /\ dma_pc' = "returned"
    /\ UNCHANGED <<frame, format, caller_fd, dups_made, imports>>
    /\ UNCHANGED <<new_vars, cmd_vars>>
    /\ UNCHANGED <<own_vars, sync_vars, textures>>

(***************************************************************************)
(* WlxPass::new : the pre-recorded secondary command buffer                *)
(***************************************************************************)

\* The most WlxPass objects alive at once.
MaxPasses == 2

\* The longest index buffer handed to create_pass.
MaxIndexLen == 3

\* index_buffer.len() as u32 keeps the low 32 bits of the u64 length: a length
\* below 2^32 (every length an index buffer of this model has) is unchanged.
AsU32(n) == n

\* The pipelines passes and render passes are made from; two pipelines have
\* compatible render passes when their attachment formats agree.
Pipelines == { "rgba_target", "bgra_target" }

DimensionChoices == { <<64, 64>>, <<1920, 1080>> }

DescriptorSetChoices == { << >>, << "sampler_set" >> }

Command(op, args) == [op |-> op, args |-> args]

\* PassCommands as it would be with the draw issued before the index buffer is
\* bound and with two instances.
PassCommandsWrongDraw(pipeline, dimensions, vertex_buffer, index_buffer, descriptor_sets) ==
    << [op |-> "set_viewport", args |-> <<0, dimensions>>],
       [op |-> "bind_pipeline_graphics", args |-> <<pipeline>>],
       [op |-> "bind_descriptor_sets", args |-> <<0, descriptor_sets>>],
       [op |-> "bind_vertex_buffers", args |-> <<0, vertex_buffer>>],
       [op |-> "draw_indexed", args |-> <<index_buffer.len, 2, 0, 0, 0>>],
       [op |-> "bind_index_buffer", args |-> <<index_buffer>>] >>

\* graphics.rs:1016-1039: what WlxPass::new records, in order.
PassCommands(pipeline, dimensions, vertex_buffer, index_buffer, descriptor_sets) ==
    << Command("set_viewport", <<0, dimensions>>),
       Command("bind_pipeline_graphics", <<pipeline>>),
       Command("bind_descriptor_sets", <<0, descriptor_sets>>),
       Command("bind_vertex_buffers", <<0, vertex_buffer>>),
       Command("bind_index_buffer", <<index_buffer>>),
       Command("draw_indexed", <<AsU32(index_buffer.len), 1, 0, 0, 0>>) >>

\* graphics.rs:1041-1047: the WlxPass; `dimensions` is kept beside the fields
\* of the struct to say what the pass was built for.
WlxPass(pipeline, dimensions, vertex_buffer, index_buffer, descriptor_sets) ==
    [ pipeline |-> pipeline,
      vertex_buffer |-> vertex_buffer,
      index_buffer |-> index_buffer,
      descriptor_sets |-> descriptor_sets,
      command_buffer |->
          PassCommands(pipeline, dimensions, vertex_buffer, index_buffer, descriptor_sets),
      dimensions |-> dimensions ]

VertexBuffer(name) == [name |-> name, len |-> 4]
IndexBuffer(name, len) == [name |-> name, len |-> len]

\* The reference-counted objects of a run: the context, the pipelines, and
\* the buffers and descriptor sets passes are made of.
Objects == {"graphics"} \cup Pipelines \cup {"quad_verts", "quad_indices", "sampler_set"}

\* PassHolds as it would be if WlxPass kept no handle to its pipeline.
PassHoldsBuffersOnly(pass) ==
    {pass.vertex_buffer.name, pass.index_buffer.name}
        \cup { pass.descriptor_sets[i] : i \in 1..Len(pass.descriptor_sets) }

\* graphics.rs:977-983: the handles a WlxPass owns through its fields (the
\* recording in command_buffer holds clones of the same buffers and sets).
PassHolds(pass) ==
    {pass.pipeline, pass.vertex_buffer.name, pass.index_buffer.name}
        \cup { pass.descriptor_sets[i] : i \in 1..Len(pass.descriptor_sets) }

\* graphics.rs:753-760: a WlxPipeline owns a handle to its context.
PipelineHolds(pipeline) == {"graphics"}

\* The objects some handle still refers to, given the caller's handles h and
\* the passes ps: an Arc'd object lives exactly as long as one of its handles.
Live(h, ps) ==
    LET direct == h \cup UNION { PassHolds(ps[i]) : i \in 1..Len(ps) }
    IN  direct \cup UNION { PipelineHolds(o) : o \in direct \cap Pipelines }

\* The caller drops its own handle to an object; whatever loses its last
\* handle by that is destroyed.
CallerDrop(object) ==
    /\ cmd_pc = "idle"
    /\ object \in held
    /\ held' = held \ {object}
    /\ freed' = freed \cup (Live(held, passes) \ Live(held', passes))
    /\ UNCHANGED <<new_vars, dma_vars, cmd_vars, sync_vars, textures>>

\* graphics.rs:959-973 and 986-1048: create_pass / WlxPass::new.  `ok` is
\* whether every unwrap of the recording (the allocation of the secondary
\* buffer, the binds, the draw, the build) succeeds.  The caller calls it on
\* a pipeline it holds and hands in handles to buffers and sets it holds.
CreatePass(pipeline, dimensions, vertex_buffer, index_buffer, descriptor_sets, ok) ==
    /\ cmd_pc = "idle"
    /\ Len(passes) < MaxPasses
    /\ {pipeline, vertex_buffer.name, index_buffer.name} \subseteq held
    /\ \A i \in 1..Len(descriptor_sets) : descriptor_sets[i] \in held
    /\ IF ok
       THEN /\ passes' = Append(passes,
                   WlxPass(pipeline, dimensions, vertex_buffer, index_buffer, descriptor_sets))
            /\ UNCHANGED <<cmd_pc, panic_in>>
       ELSE /\ cmd_pc' = "panic"
            /\ panic_in' = "WlxPass::new"
            /\ UNCHANGED passes
    /\ UNCHANGED <<cb, last_built, exec, futures, queue, next_id, completed, now_returned>>
    /\ UNCHANGED <<new_vars, dma_vars>>
    /\ UNCHANGED <<own_vars, sync_vars, textures>>

\* The caller drops a WlxPass it owns: its fields are dropped with it.
DropPass(i) ==
    /\ cmd_pc = "idle"
    /\ i \in 1..Len(passes)
    /\ passes' = [j \in 1..(Len(passes) - 1) |-> IF j < i THEN passes[j] ELSE passes[j + 1]]
    /\ freed' = freed \cup (Live(held, passes) \ Live(held, passes'))
    /\ UNCHANGED held
    /\ UNCHANGED <<cmd_pc, cb, last_built, panic_in, exec, futures, queue, next_id, completed,
                   now_returned>>
    /\ UNCHANGED <<new_vars, dma_vars>>
    /\ UNCHANGED <<sync_vars, textures>>

(***************************************************************************)
(* WlxCommandBuffer : recording                                            *)
(***************************************************************************)

\* The most commands recorded into one primary command buffer.
MaxCommands == 3

UsageChoices == { "OneTimeSubmit", "MultipleSubmit" }

RenderPassCompatible(p, q) == p = q

\* The builder's own record of an open render pass instance.
InsideRenderPass(b) == b.render_pass_state /= None

\* The unwrap of a recording call panics: the thread unwinds out of `op`.
CmdPanic(op) ==
    /\ cmd_pc' = "panic"
    /\ panic_in' = op

\* graphics.rs:560-571
CreateCommandBuffer(usage, ok) ==
    /\ cmd_pc = "idle"
    /\ cb = None
    /\ IF ok
       THEN /\ cb' = Some([usage |-> usage, commands |-> << >>, render_pass_state |-> None])
            /\ UNCHANGED <<cmd_pc, panic_in>>
       ELSE /\ CmdPanic("create_command_buffer")
            /\ UNCHANGED cb
    /\ UNCHANGED <<passes, last_built, exec, futures, queue, next_id, completed, now_returned>>
    /\ UNCHANGED <<new_vars, dma_vars>>
    /\ UNCHANGED <<own_vars, sync_vars, textures>>

\* graphics.rs:646-660.  The builder refuses to begin a render pass inside a
\* render pass instance.
BeginRenderPass(pipeline) ==
    /\ cmd_pc = "idle"
    /\ cb /= None
    /\ Len(Unwrap(cb).commands) < MaxCommands
    /\ IF ~InsideRenderPass(Unwrap(cb))
       THEN /\ cb' = Some([Unwrap(cb) EXCEPT
                   !.commands = Append(@, Command("begin_render_pass",
                                   <<pipeline, "clear_opaque_black", "SecondaryCommandBuffers">>)),
                   !.render_pass_state = Some(pipeline)])
            /\ UNCHANGED <<cmd_pc, panic_in>>
       ELSE /\ CmdPanic("begin_render_pass")
            /\ UNCHANGED cb
    /\ UNCHANGED <<passes, last_built, exec, futures, queue, next_id, completed, now_returned>>
    /\ UNCHANGED <<new_vars, dma_vars>>
    /\ UNCHANGED <<own_vars, sync_vars, textures>>

\* RunRef as it would be if the pass were put in front of what is recorded
\* already.
RunRefPrepends(i) ==
    /\ cmd_pc = "idle"
    /\ cb /= None
    /\ i \in 1..Len(passes)
    /\ Len(Unwrap(cb).commands) < MaxCommands
    /\ InsideRenderPass(Unwrap(cb))
    /\ cb' = Some([Unwrap(cb) EXCEPT
            !.commands = << [op |-> "execute_commands",
                             args |-> <<passes[i].command_buffer>>] >> \o @])
    /\ UNCHANGED <<cmd_pc, panic_in>>
    /\ UNCHANGED <<passes, last_built, exec, futures, queue, next_id, completed, now_returned>>
    /\ UNCHANGED <<new_vars, dma_vars>>
    /\ UNCHANGED <<own_vars, sync_vars, textures>>

\* graphics.rs:662-668.  A secondary buffer that inherits a render pass is
\* executed only inside an instance of a compatible render pass.  The pass
\* is borrowed: the builder takes a clone of the handle to its recording.
RunRef(i) ==
    /\ cmd_pc = "idle"
    /\ cb /= None
    /\ i \in 1..Len(passes)
    /\ Len(Unwrap(cb).commands) < MaxCommands
    /\ IF /\ InsideRenderPass(Unwrap(cb))
          /\ RenderPassCompatible(Unwrap(Unwrap(cb).render_pass_state), passes[i].pipeline)
       THEN /\ cb' = Some([Unwrap(cb) EXCEPT
                   !.commands = Append(@, Command("execute_commands",
                                   <<passes[i].command_buffer>>))])
            /\ UNCHANGED <<cmd_pc, panic_in>>
       ELSE /\ CmdPanic("run_ref")
            /\ UNCHANGED cb
    /\ UNCHANGED <<passes, last_built, exec, futures, queue, next_id, completed, now_returned>>
    /\ UNCHANGED <<new_vars, dma_vars>>
    /\ UNCHANGED <<own_vars, sync_vars, textures>>

\* The most texture2d calls of one run.
MaxTextures == 2

\* TextureUpload as it would be if the copy were carried out inside texture2d.
TextureUploadEager == [staging |-> "written", image |-> "uploaded"]

\* graphics.rs:677-705: the image is created with undefined contents, and the
\* staging buffer holds all of `data` once copy_from_slice has returned.
TextureUpload == [staging |-> "written", image |-> "undefined"]

\* graphics.rs:670-712.  `ok` is whether the image and the staging buffer are
\* created; a copy is refused inside a render pass instance.  The copy from
\* staging buffer k to image k is recorded, nothing more.
Texture2d(ok) ==
    /\ cmd_pc = "idle"
    /\ cb /= None
    /\ Len(Unwrap(cb).commands) < MaxCommands
    /\ Len(textures) < MaxTextures
    /\ IF ok /\ ~InsideRenderPass(Unwrap(cb))
       THEN /\ textures' = Append(textures, TextureUpload)
            /\ cb' = Some([Unwrap(cb) EXCEPT
                   !.commands = Append(@, Command("copy_buffer_to_image",
                                   <<Len(textures) + 1, Len(textures) + 1>>))])
            /\ UNCHANGED <<cmd_pc, panic_in>>
       ELSE /\ CmdPanic("texture2d")
            /\ UNCHANGED <<cb, textures>>
    /\ UNCHANGED <<passes, last_built, exec, futures, queue, next_id, completed, now_returned>>
    /\ UNCHANGED <<new_vars, dma_vars>>
    /\ UNCHANGED <<own_vars, sync_vars>>

\* EndRenderPass as it would be if the builder went on believing the render
\* pass open.
EndRenderPassEffectStaysOpen(b) ==
    [b EXCEPT !.commands = Append(@, [op |-> "end_render_pass", args |-> << >>])]

\* What a successful end_render_pass leaves in the builder.
EndRenderPassEffect(b) ==
    [b EXCEPT !.commands = Append(@, Command("end_render_pass", << >>)),
              !.render_pass_state = None]

\* graphics.rs:730-735.  Ending is refused outside a render pass instance.
EndRenderPass ==
    /\ cmd_pc = "idle"
    /\ cb /= None
    /\ Len(Unwrap(cb).commands) < MaxCommands
    /\ IF InsideRenderPass(Unwrap(cb))
       THEN /\ cb' = Some(EndRenderPassEffect(Unwrap(cb)))
            /\ UNCHANGED <<cmd_pc, panic_in>>
       ELSE /\ CmdPanic("end_render_pass")
            /\ UNCHANGED cb
    /\ UNCHANGED <<passes, last_built, exec, futures, queue, next_id, completed, now_returned>>
    /\ UNCHANGED <<new_vars, dma_vars>>
    /\ UNCHANGED <<own_vars, sync_vars, textures>>

\* BuildValid as it would be if an open render pass were let through.
BuildValidAlways(b) == b = b

\* AutoCommandBufferBuilder::build refuses a recording whose render pass
\* instance is still active.
BuildValid(b) == ~InsideRenderPass(b)

\* The finished primary command buffer.
Recording(b) == [usage |-> b.usage, commands |-> b.commands]

\* graphics.rs:737-739
Build ==
    /\ cmd_pc = "idle"
    /\ cb /= None
    /\ IF BuildValid(Unwrap(cb))
       THEN /\ last_built' = Some(Recording(Unwrap(cb)))
            /\ cb' = None
            /\ UNCHANGED <<cmd_pc, panic_in>>
       ELSE /\ CmdPanic("build")
            /\ UNCHANGED <<cb, last_built>>
    /\ UNCHANGED <<passes, exec, futures, queue, next_id, completed, now_returned>>
    /\ UNCHANGED <<new_vars, dma_vars>>
    /\ UNCHANGED <<own_vars, sync_vars, textures>>

(***************************************************************************)
(* WlxCommandBuffer : submission, and the queue                            *)
(***************************************************************************)

\* The most recordings built for execution in one run.
MaxRecordings == 2

\* ExecFuture as it would be if execute() submitted before returning the
\* future.
ExecFutureSubmitted(id, recording, origin) ==
    [id |-> id, recording |-> recording, origin |-> origin, submitted |-> TRUE]

\* PrimaryCommandBufferAbstract::execute: a future that holds the command
\* buffer and the queue, with nothing submitted yet.
ExecFuture(id, recording, origin) ==
    [id |-> id, recording |-> recording, origin |-> origin, submitted |-> FALSE]

\* What the queue holds for one submitted command buffer; a flush of a
\* CommandBufferExecFuture submits without a fence.
Submission(f) ==
    [id |-> f.id, recording |-> f.recording, origin |-> f.origin,
     state |-> "pending", command_buffer |-> "alive", fence |-> None]

\* Dropping a future drops its reference to the command buffer.
ReleaseCommandBuffer(q, id) ==
    [k \in 1..Len(q) |-> IF q[k].id = id THEN [q[k] EXCEPT !.command_buffer = "dropped"]
                         ELSE q[k]]

RemoveAt(seq, i) ==
    [j \in 1..(Len(seq) - 1) |-> IF j < i THEN seq[j] ELSE seq[j + 1]]

\* graphics.rs:741-744: build() and execute(queue).unwrap(); the token goes
\* to the caller.
BuildAndExecute ==
    /\ cmd_pc = "idle"
    /\ cb /= None
    /\ next_id <= MaxRecordings
    /\ IF BuildValid(Unwrap(cb))
       THEN /\ futures' = Append(futures,
                   ExecFuture(next_id, Recording(Unwrap(cb)), "build_and_execute"))
            /\ next_id' = next_id + 1
            /\ cb' = None
            /\ UNCHANGED <<cmd_pc, panic_in>>
       ELSE /\ CmdPanic("build")
            /\ UNCHANGED <<cb, futures, next_id>>
    /\ UNCHANGED <<passes, last_built, exec, queue, completed, now_returned>>
    /\ UNCHANGED <<new_vars, dma_vars>>
    /\ UNCHANGED <<own_vars, sync_vars, textures>>

\* graphics.rs:747: let mut exec = self.build_and_execute();
BuildAndExecuteNow ==
    /\ cmd_pc = "idle"
    /\ cb /= None
    /\ next_id <= MaxRecordings
    /\ IF BuildValid(Unwrap(cb))
       THEN /\ exec' = Some(ExecFuture(next_id, Recording(Unwrap(cb)),
                                       "build_and_execute_now"))
            /\ next_id' = next_id + 1
            /\ cb' = None
            /\ cmd_pc' = "now_flush"
            /\ UNCHANGED panic_in
       ELSE /\ CmdPanic("build")
            /\ UNCHANGED <<cb, exec, next_id>>
    /\ UNCHANGED <<passes, last_built, futures, queue, completed, now_returned>>
    /\ UNCHANGED <<new_vars, dma_vars>>
    /\ UNCHANGED <<own_vars, sync_vars, textures>>

\* graphics.rs:748: exec.flush().unwrap() hands the command buffer to the
\* queue and returns; it does not wait for the device.
NowFlush(ok) ==
    /\ cmd_pc = "now_flush"
    /\ IF ok
       THEN /\ queue' = Append(queue, Submission(Unwrap(exec)))
            /\ exec' = Some([Unwrap(exec) EXCEPT !.submitted = TRUE])
            /\ cmd_pc' = "now_cleanup"
            /\ UNCHANGED panic_in
       ELSE /\ CmdPanic("build_and_execute_now")
            /\ UNCHANGED <<queue, exec>>
    /\ UNCHANGED <<passes, cb, last_built, futures, next_id, completed, now_returned>>
    /\ UNCHANGED <<new_vars, dma_vars>>
    /\ UNCHANGED <<own_vars, sync_vars, textures>>

\* graphics.rs:749: exec.cleanup_finished() forwards to the previous future,
\* a NowFuture, and releases nothing.
NowCleanupFinished ==
    /\ cmd_pc = "now_cleanup"
    /\ cmd_pc' = "drop_flush"
    /\ UNCHANGED <<passes, cb, last_built, panic_in, exec, futures, queue, next_id, completed,
                   now_returned>>
    /\ UNCHANGED <<new_vars, dma_vars>>
    /\ UNCHANGED <<own_vars, sync_vars, textures>>

\* The caller flushes a token it holds.
FutureFlush(i) ==
    /\ cmd_pc = "idle"
    /\ i \in 1..Len(futures)
    /\ ~futures[i].submitted
    /\ queue' = Append(queue, Submission(futures[i]))
    /\ futures' = [futures EXCEPT ![i].submitted = TRUE]
    /\ UNCHANGED <<cmd_pc, passes, cb, last_built, panic_in, exec, next_id, completed,
                   now_returned>>
    /\ UNCHANGED <<new_vars, dma_vars>>
    /\ UNCHANGED <<own_vars, sync_vars, textures>>

\* The caller drops a token it holds: the drop of CommandBufferExecFuture runs.
FutureDrop(i) ==
    /\ cmd_pc = "idle"
    /\ i \in 1..Len(futures)
    /\ exec' = Some(futures[i])
    /\ futures' = RemoveAt(futures, i)
    /\ cmd_pc' = "drop_flush"
    /\ UNCHANGED <<passes, cb, last_built, panic_in, queue, next_id, completed, now_returned>>
    /\ UNCHANGED <<new_vars, dma_vars>>
    /\ UNCHANGED <<own_vars, sync_vars, textures>>

\* graphics.rs:750, the end of `exec`'s scope.  The drop of a future that is
\* not finished first flushes it (unwrapped) ...
ExecDropFlush(ok) ==
    /\ cmd_pc = "drop_flush"
    /\ IF Unwrap(exec).submitted
       THEN /\ cmd_pc' = "drop_wait"
            /\ UNCHANGED <<queue, exec, panic_in>>
       ELSE IF ok
            THEN /\ queue' = Append(queue, Submission(Unwrap(exec)))
                 /\ exec' = Some([Unwrap(exec) EXCEPT !.submitted = TRUE])
                 /\ cmd_pc' = "drop_wait"
                 /\ UNCHANGED panic_in
            ELSE /\ CmdPanic("drop")
                 /\ UNCHANGED <<queue, exec>>
    /\ UNCHANGED <<passes, cb, last_built, futures, next_id, completed, now_returned>>
    /\ UNCHANGED <<new_vars, dma_vars>>
    /\ UNCHANGED <<own_vars, sync_vars, textures>>

\* WaitIdleReturns as it would be if the drop did not block.
WaitIdleNoWait == queue = queue

\* ... then blocks in queue.wait_idle(): that returns once the queue has
\* nothing pending or executing.
WaitIdleReturns == queue = << >>

\* ... and then the future's fields are dropped, the command buffer among
\* them, and control is back with the caller.
ExecDropWait(ok) ==
    /\ cmd_pc = "drop_wait"
    /\ IF ok
       THEN /\ WaitIdleReturns
            /\ queue' = ReleaseCommandBuffer(queue, Unwrap(exec).id)
            /\ now_returned' = IF Unwrap(exec).origin = "build_and_execute_now"
                               THEN now_returned \cup {Unwrap(exec).id}
                               ELSE now_returned
            /\ exec' = None
            /\ cmd_pc' = "idle"
            /\ UNCHANGED panic_in
       ELSE /\ CmdPanic("drop")
            /\ UNCHANGED <<queue, exec, now_returned>>
    /\ UNCHANGED <<passes, cb, last_built, futures, next_id, completed>>
    /\ UNCHANGED <<new_vars, dma_vars>>
    /\ UNCHANGED <<own_vars, sync_vars, textures>>

\* The submissions of the queue the device has not started yet.
Pending(q) == { k \in 1..Len(q) : q[k].state = "pending" }

\* NextToStart as it would be on a device that starts the newest submission.
NextToStartNewest(q) == CHOOSE k \in Pending(q) : \A l \in Pending(q) : l <= k

\* A queue starts its submissions in submission order.
NextToStart(q) == CHOOSE k \in Pending(q) : \A l \in Pending(q) : k <= l

\* The device starts the oldest submission it has not started; earlier ones
\* may still be executing.
GpuStart ==
    /\ Pending(queue) /= {}
    /\ queue' = [queue EXCEPT ![NextToStart(queue)].state = "executing"]
    /\ UNCHANGED <<cmd_pc, passes, cb, last_built, panic_in, exec, futures, next_id, completed,
                   now_returned>>
    /\ UNCHANGED <<new_vars, dma_vars>>
    /\ UNCHANGED <<own_vars, sync_vars, textures>>

\* What the copies of a finished recording leave in the images.
ExecuteCopies(tex, commands) ==
    [ t \in 1..Len(tex) |->
        IF \E c \in 1..Len(commands) :
              /\ commands[c].op = "copy_buffer_to_image"
              /\ commands[c].args[2] = t
        THEN [tex[t] EXCEPT !.image = IF tex[t].staging = "written" THEN "uploaded"
                                      ELSE "garbage"]
        ELSE tex[t] ]

\* The device finishes a submission it is executing: the copies of the
\* recording have been carried out and the fence of the submission, if it has
\* one, is signaled.
GpuFinish(k) ==
    /\ k \in 1..Len(queue)
    /\ queue[k].state = "executing"
    /\ completed' = completed \cup {queue[k].id}
    /\ signaled' = signaled \cup { queue[k].fence[i] : i \in 1..Len(queue[k].fence) }
    /\ textures' = ExecuteCopies(textures, queue[k].recording.commands)
    /\ queue' = RemoveAt(queue, k)
    /\ UNCHANGED <<cmd_pc, passes, cb, last_built, panic_in, exec, futures, next_id,
                   now_returned>>
    /\ UNCHANGED <<tl_command_buffer, fence, fences>>
    /\ UNCHANGED <<new_vars, dma_vars, own_vars>>

(***************************************************************************)
(* WlxGraphics::transition_layout                                          *)
(***************************************************************************)

\* The images a layout transition is asked for, and the layouts.
ImageChoices == { "render_target", "imported_frame" }

LayoutChoices == { "Undefined", "TransferSrcOptimal" }

\* ImageMemoryBarrier with the caller's two layouts exchanged.
ImageMemoryBarrierSwapped(img, old_layout, new_layout) ==
    [ src_stages |-> "ALL_TRANSFER", src_access |-> "TRANSFER_WRITE",
      dst_stages |-> "ALL_TRANSFER", dst_access |-> "TRANSFER_READ",
      old_layout |-> new_layout, new_layout |-> old_layout,
      subresource_range |-> <<img, "full">>, image |-> img ]

\* graphics.rs:579-588; image.subresource_range() is the whole of the image.
ImageMemoryBarrier(img, old_layout, new_layout) ==
    [ src_stages |-> "ALL_TRANSFER", src_access |-> "TRANSFER_WRITE",
      dst_stages |-> "ALL_TRANSFER", dst_access |-> "TRANSFER_READ",
      old_layout |-> old_layout, new_layout |-> new_layout,
      subresource_range |-> <<img, "full">>, image |-> img ]

\* graphics.rs:620-628: what the raw queue submit hands to the queue, one
\* command buffer and the fence.
RawSubmission(command_buffer, f) ==
    [id |-> command_buffer.id, recording |-> command_buffer.recording,
     origin |-> "transition_layout", state |-> "pending", command_buffer |-> "alive",
     fence |-> f]

\* graphics.rs:579-610: the barrier, and the one-time-submit primary command
\* buffer that holds it; `ok` is whether the three unwraps succeed.
TransitionLayout(img, old_layout, new_layout, ok) ==
    /\ cmd_pc = "idle"
    /\ next_id <= MaxRecordings
    /\ IF ok
       THEN /\ tl_command_buffer' =
                   Some([ id |-> next_id,
                          recording |->
                              [ usage |-> "OneTimeSubmit",
                                commands |-> << Command("pipeline_barrier",
                                    << ImageMemoryBarrier(img, old_layout, new_layout) >>) >> ] ])
            /\ next_id' = next_id + 1
            /\ cmd_pc' = "tl_fence"
            /\ UNCHANGED panic_in
       ELSE /\ CmdPanic("transition_layout")
            /\ UNCHANGED <<tl_command_buffer, next_id>>
    /\ UNCHANGED <<passes, cb, last_built, exec, futures, queue, completed, now_returned>>
    /\ UNCHANGED <<fence, fences, signaled>>
    /\ UNCHANGED <<new_vars, dma_vars, own_vars, textures>>

\* graphics.rs:612-616: Fence::new with the default create info, which asks
\* for an unsignaled fence.
TlCreateFence(ok) ==
    /\ cmd_pc = "tl_fence"
    /\ IF ok
       THEN /\ fence' = Some(Unwrap(tl_command_buffer).id)
            /\ cmd_pc' = "tl_submit"
            /\ UNCHANGED panic_in
       ELSE /\ CmdPanic("transition_layout")
            /\ UNCHANGED fence
    /\ UNCHANGED <<passes, cb, last_built, exec, futures, queue, next_id, completed,
                   now_returned>>
    /\ UNCHANGED <<tl_command_buffer, fences, signaled>>
    /\ UNCHANGED <<new_vars, dma_vars, own_vars, textures>>

\* graphics.rs:618-631: vkQueueSubmit, called through the function table.
TlQueueSubmit(ok) ==
    /\ cmd_pc = "tl_submit"
    /\ IF ok
       THEN /\ queue' = Append(queue, RawSubmission(Unwrap(tl_command_buffer), fence))
            /\ cmd_pc' = "tl_return"
            /\ UNCHANGED panic_in
       ELSE /\ CmdPanic("transition_layout")
            /\ UNCHANGED queue
    /\ UNCHANGED <<passes, cb, last_built, exec, futures, next_id, completed, now_returned>>
    /\ UNCHANGED sync_vars
    /\ UNCHANGED <<new_vars, dma_vars, own_vars, textures>>

\* graphics.rs:634: the local `command_buffer` goes out of scope, and its
\* drop hands the allocation back to the command buffer allocator.
TlDropCommandBuffer(q, id) == ReleaseCommandBuffer(q, id)

\* graphics.rs:633-634: the fence is moved out to the caller and the locals
\* are dropped; nothing here waits for the device.
TlReturn ==
    /\ cmd_pc = "tl_return"
    /\ fences' = fences \cup {Unwrap(fence)}
    /\ queue' = TlDropCommandBuffer(queue, Unwrap(tl_command_buffer).id)
    /\ tl_command_buffer' = None
    /\ fence' = None
    /\ cmd_pc' = "idle"
    /\ UNCHANGED <<passes, cb, last_built, panic_in, exec, futures, next_id, completed,
                   now_returned>>
    /\ UNCHANGED signaled
    /\ UNCHANGED <<new_vars, dma_vars, own_vars, textures>>

(***************************************************************************)
(* Specifications: one per operation group                                 *)
(***************************************************************************)

\* The context dmabuf_texture is called on: one that WlxGraphics::new has
\* returned.
ContextChoices ==
    { DeviceCreateInfo(
          PhysicalDevice(0, "DiscreteGpu", AllExtensions, << QueueFamily(TRUE, "Ok(true)") >>),
          Union(r, device_extensions), 0) : r \in RuntimeChoices }

NoFrame ==
    [ format |-> [width |-> 0, height |-> 0, fourcc |-> "", modifier |-> ""],
      num_planes |-> 0,
      planes |-> [i \in 1..MaxPlanes |-> FramePlane(None)] ]

InitCmdLocals ==
    /\ cmd_pc = "idle"
    /\ cb = None
    /\ last_built = None
    /\ panic_in = ""
    /\ exec = None
    /\ futures = << >>
    /\ queue = << >>
    /\ next_id = 1
    /\ completed = {}
    /\ now_returned = {}
    /\ tl_command_buffer = None
    /\ fence = None
    /\ fences = {}
    /\ signaled = {}
    /\ textures = << >>

InitDmaLocals ==
    /\ dma_pc = "idle"
    /\ frame = NoFrame
    /\ format = None
    /\ image = None
    /\ caller_fd = "absent"
    /\ new_file = "none"
    /\ dups_made = 0
    /\ imports = 0
    /\ dma_result = "-"

InitNew ==
    /\ new_pc = "start"
    /\ enumerated = << >>
    /\ best = None
    /\ best_runtime = {}
    /\ device = None
    /\ InitDmaLocals
    /\ InitCmdLocals
    /\ passes = << >>
    /\ held = {}
    /\ freed = {}

NextNew ==
    \/ \E ok \in BOOLEAN : NewCreateInstance(ok)
    \/ \E t \in DeviceTypes, supported \in SupportedChoices,
          families \in QueueFamilyChoices, runtime_extensions \in RuntimeChoices :
          NewNextDevice(t, supported, families, runtime_extensions)
    \/ NewExpect
    \/ \E ok \in BOOLEAN : NewCreateDevice(ok)
    \/ \E ok \in BOOLEAN : NewReturn(ok)

SpecNew == InitNew /\ [][NextNew]_vars

InitDma ==
    /\ new_pc = "constructed"
    /\ \E c \in ContextChoices :
          /\ device = Some(c)
          /\ best = Some(<<c.physical_device, c.enabled_extensions, c.queue_create_infos[1]>>)
          /\ best_runtime = c.enabled_extensions \ device_extensions
    /\ enumerated = << [fate |-> "survivor", device_type |-> Some("DiscreteGpu")] >>
    /\ InitDmaLocals
    /\ InitCmdLocals
    /\ passes = << >>
    /\ held = {"graphics"}
    /\ freed = {}

NextDma ==
    \/ \E f \in Frames : DmaCall(f)
    \/ DmaMatchFourcc
    \/ \E driver_ok \in BOOLEAN : DmaCreateImage(driver_ok)
    \/ \E found \in BOOLEAN : DmaFindMemoryType(found)
    \/ \E debug_assertions \in BOOLEAN : DmaDebugAsserts(debug_assertions)
    \/ DmaCheckPlanes
    \/ DmaCheckFd
    \/ \E ok \in BOOLEAN : DmaDupFd(ok)
    \/ \E ok \in BOOLEAN : DmaImport(ok)
    \/ \E ok \in BOOLEAN : DmaBind(ok)

SpecDma == InitDma /\ [][NextDma]_vars

\* A context exists; nothing else has happened yet.
InitContext ==
    /\ new_pc = "constructed"
    /\ LET c == DeviceCreateInfo(
                    PhysicalDevice(0, "DiscreteGpu", AllExtensions,
                                   << QueueFamily(TRUE, "Ok(true)") >>),
                    device_extensions, 0)
       IN  /\ device = Some(c)
           /\ best = Some(<<c.physical_device, c.enabled_extensions, c.queue_create_infos[1]>>)
    /\ best_runtime = {}
    /\ enumerated = << [fate |-> "survivor", device_type |-> Some("DiscreteGpu")] >>
    /\ InitDmaLocals
    /\ held = Objects
    /\ freed = {}

\* ---- WlxPass::new alone ----
InitPass ==
    /\ InitContext
    /\ InitCmdLocals
    /\ passes = << >>

NextPass ==
    \/ \E pipeline \in Pipelines, dimensions \in DimensionChoices,
          n \in 1..MaxIndexLen, descriptor_sets \in DescriptorSetChoices, ok \in BOOLEAN :
          CreatePass(pipeline, dimensions, VertexBuffer("quad_verts"),
                     IndexBuffer("quad_indices", n), descriptor_sets, ok)
    \/ \E i \in 1..MaxPasses : DropPass(i)

SpecPass == InitPass /\ [][NextPass]_vars

\* One pass per pipeline, each drawing the unit quad (graphics.rs:92).
QuadPass(pipeline) ==
    WlxPass(pipeline, <<1920, 1080>>, VertexBuffer("quad_verts"),
            IndexBuffer("quad_indices", 6), << "sampler_set" >>)

\* ---- recording: every recording call, then build ----
InitRecord ==
    /\ InitContext
    /\ InitCmdLocals
    /\ passes = << QuadPass("rgba_target"), QuadPass("bgra_target") >>

NextRecord ==
    \/ \E usage \in UsageChoices, ok \in BOOLEAN : CreateCommandBuffer(usage, ok)
    \/ \E pipeline \in Pipelines : BeginRenderPass(pipeline)
    \/ \E i \in 1..MaxPasses : RunRef(i)
    \/ \E ok \in BOOLEAN : Texture2d(ok)
    \/ EndRenderPass
    \/ Build

SpecRecord == InitRecord /\ [][NextRecord]_vars

\* ---- submission: one pipeline, one pass, the queue and the device ----
InitSubmit ==
    /\ InitContext
    /\ InitCmdLocals
    /\ passes = << QuadPass("rgba_target") >>

NextSubmit ==
    \/ \E ok \in BOOLEAN : CreateCommandBuffer("OneTimeSubmit", ok)
    \/ BeginRenderPass("rgba_target")
    \/ RunRef(1)
    \/ EndRenderPass
    \/ BuildAndExecute
    \/ BuildAndExecuteNow
    \/ \E ok \in BOOLEAN : NowFlush(ok)
    \/ NowCleanupFinished
    \/ \E i \in 1..MaxRecordings : FutureFlush(i)
    \/ \E i \in 1..MaxRecordings : FutureDrop(i)
    \/ \E ok \in BOOLEAN : ExecDropFlush(ok)
    \/ \E ok \in BOOLEAN : ExecDropWait(ok)
    \/ GpuStart
    \/ \E k \in 1..MaxRecordings : GpuFinish(k)

SpecSubmit == InitSubmit /\ [][NextSubmit]_vars

\* The device works on what it has been given: a submission that can start
\* is started, and one that is executing finishes.
DeviceProgress ==
    /\ WF_vars(GpuStart)
    /\ WF_vars(\E k \in 1..MaxRecordings : GpuFinish(k))


\* ---- the queue: tokens, blocking submits and layout transitions ----
InitQueue ==
    /\ InitContext
    /\ InitCmdLocals
    /\ passes = << >>

NextQueue ==
    \/ \E ok \in BOOLEAN : CreateCommandBuffer("OneTimeSubmit", ok)
    \/ BuildAndExecute
    \/ BuildAndExecuteNow
    \/ \E ok \in BOOLEAN : NowFlush(ok)
    \/ NowCleanupFinished
    \/ \E i \in 1..MaxRecordings : FutureFlush(i)
    \/ \E i \in 1..MaxRecordings : FutureDrop(i)
    \/ \E ok \in BOOLEAN : ExecDropFlush(ok)
    \/ \E ok \in BOOLEAN : ExecDropWait(ok)
    \/ \E img \in ImageChoices, old_layout \in LayoutChoices, new_layout \in LayoutChoices,
          ok \in BOOLEAN : TransitionLayout(img, old_layout, new_layout, ok)
    \/ \E ok \in BOOLEAN : TlCreateFence(ok)
    \/ \E ok \in BOOLEAN : TlQueueSubmit(ok)
    \/ TlReturn
    \/ GpuStart
    \/ \E k \in 1..MaxRecordings : GpuFinish(k)

SpecQueue == InitQueue /\ [][NextQueue]_vars

SpecQueueFair == SpecQueue /\ DeviceProgress

\* ---- texture upload: texture2d, then the recording is submitted ----
InitUpload ==
    /\ InitContext
    /\ InitCmdLocals
    /\ passes = << >>

NextUpload ==
    \/ \E ok \in BOOLEAN : CreateCommandBuffer("OneTimeSubmit", ok)
    \/ \E ok \in BOOLEAN : Texture2d(ok)
    \/ BuildAndExecute
    \/ BuildAndExecuteNow
    \/ \E ok \in BOOLEAN : NowFlush(ok)
    \/ NowCleanupFinished
    \/ \E i \in 1..MaxRecordings : FutureFlush(i)
    \/ \E i \in 1..MaxRecordings : FutureDrop(i)
    \/ \E ok \in BOOLEAN : ExecDropFlush(ok)
    \/ \E ok \in BOOLEAN : ExecDropWait(ok)
    \/ GpuStart
    \/ \E k \in 1..MaxRecordings : GpuFinish(k)

SpecUpload == InitUpload /\ [][NextUpload]_vars

\* ---- one pass executed by several frame command buffers ----
\* Two passes of one pipeline, told apart by what they are drawn for.
OverlayPass(dimensions) ==
    WlxPass("rgba_target", dimensions, VertexBuffer("quad_verts"),
            IndexBuffer("quad_indices", 6), << "sampler_set" >>)

InitReuse ==
    /\ InitContext
    /\ InitCmdLocals
    /\ passes = << OverlayPass(<<1920, 1080>>), OverlayPass(<<64, 64>>) >>

NextReuse ==
    \/ \E usage \in UsageChoices, ok \in BOOLEAN : CreateCommandBuffer(usage, ok)
    \/ BeginRenderPass("rgba_target")
    \/ \E i \in 1..MaxPasses : RunRef(i)
    \/ EndRenderPass
    \/ Build

SpecReuse == InitReuse /\ [][NextReuse]_vars

\* ---- ownership: passes are made and dropped, the caller drops handles ----
InitOwn ==
    /\ InitContext
    /\ InitCmdLocals
    /\ passes = << >>

NextOwn ==
    \/ \E pipeline \in Pipelines, descriptor_sets \in DescriptorSetChoices, ok \in BOOLEAN :
          CreatePass(pipeline, <<1920, 1080>>, VertexBuffer("quad_verts"),
                     IndexBuffer("quad_indices", 6), descriptor_sets, ok)
    \/ \E i \in 1..MaxPasses : DropPass(i)
    \/ \E object \in Objects : CallerDrop(object)

SpecOwn == InitOwn /\ [][NextOwn]_vars

\* ---- every operation that can fail, called by the one thread ----
\* Frames of the usual size and layout: a supported and an unsupported
\* fourcc, every plane count, with and without a descriptor.
ErrorFrames ==
    { f \in Frames :
        /\ f.format.width = 64 /\ f.format.height = 64
        /\ f.format.modifier = "LINEAR"
        /\ f.format.fourcc \in {"DRM_FORMAT_ABGR8888", "DRM_FORMAT_NV12"}
        /\ \A i \in 2..MaxPlanes : f.planes[i] = FramePlane(None) }

\* The thread is inside dmabuf_texture, or has panicked there.
InsideDma == dma_pc \notin {"idle", "returned"}

InitErrors ==
    /\ InitContext
    /\ InitCmdLocals
    /\ passes = << >>

\* A call starts when the thread is in no other call; a panic ends the run
\* of the thread.  The device goes on by itself.
NextErrors ==
    \/ /\ cmd_pc = "idle"
       /\ \/ \E f \in ErrorFrames : DmaCall(f)
          \/ DmaMatchFourcc
          \/ \E driver_ok \in BOOLEAN : DmaCreateImage(driver_ok)
          \/ \E found \in BOOLEAN : DmaFindMemoryType(found)
          \/ \E debug_assertions \in BOOLEAN : DmaDebugAsserts(debug_assertions)
          \/ DmaCheckPlanes
          \/ DmaCheckFd
          \/ \E ok \in BOOLEAN : DmaDupFd(ok)
          \/ \E ok \in BOOLEAN : DmaImport(ok)
          \/ \E ok \in BOOLEAN : DmaBind(ok)
    \/ /\ ~InsideDma
       /\ \/ \E ok \in BOOLEAN :
                CreatePass("rgba_target", <<1920, 1080>>, VertexBuffer("quad_verts"),
                           IndexBuffer("quad_indices", 6), << "sampler_set" >>, ok)
          \/ \E ok \in BOOLEAN : CreateCommandBuffer("OneTimeSubmit", ok)
          \/ \E ok \in BOOLEAN : Texture2d(ok)
          \/ BuildAndExecute
          \/ BuildAndExecuteNow
          \/ \E ok \in BOOLEAN : NowFlush(ok)
          \/ NowCleanupFinished
          \/ \E i \in 1..MaxRecordings : FutureDrop(i)
          \/ \E ok \in BOOLEAN : ExecDropFlush(ok)
          \/ \E ok \in BOOLEAN : ExecDropWait(ok)
          \/ \E ok \in BOOLEAN :
                TransitionLayout("imported_frame", "Undefined", "TransferSrcOptimal", ok)
          \/ \E ok \in BOOLEAN : TlCreateFence(ok)
          \/ \E ok \in BOOLEAN : TlQueueSubmit(ok)
          \/ TlReturn
    \/ GpuStart
    \/ \E k \in 1..MaxRecordings : GpuFinish(k)

SpecErrors == InitErrors /\ [][NextErrors]_vars

\* ---- construction followed by imports on the context it returned ----
\* One-plane frames of a supported fourcc, with and without a descriptor.
AssertFrames ==
    { f \in ErrorFrames :
        f.num_planes = 1 /\ f.format.fourcc \in SupportedFourcc }

InitAsserts == InitNew

\* DmaCall is enabled only once new has returned its context.
NextAsserts ==
    \/ NextNew
    \/ \E f \in AssertFrames : DmaCall(f)
    \/ DmaMatchFourcc
    \/ \E driver_ok \in BOOLEAN : DmaCreateImage(driver_ok)
    \/ \E found \in BOOLEAN : DmaFindMemoryType(found)
    \/ \E debug_assertions \in BOOLEAN : DmaDebugAsserts(debug_assertions)
    \/ DmaCheckPlanes
    \/ DmaCheckFd
    \/ \E ok \in BOOLEAN : DmaDupFd(ok)
    \/ \E ok \in BOOLEAN : DmaImport(ok)
    \/ \E ok \in BOOLEAN : DmaBind(ok)

SpecAsserts == InitAsserts /\ [][NextAsserts]_vars

(***************************************************************************)
(* Claims about WlxGraphics::new                                           *)
(***************************************************************************)

\* The selection has been made: expect() has returned a device.
Selected == new_pc \in {"selected", "device_created", "constructed"}

\* Places (1-based) of the enumerated devices that passed both filters.
Survivors == { i \in 1..Len(enumerated) : enumerated[i].fate = "survivor" }

SurvivorRank(i) == DeviceTypeRank(enumerated[i].device_type[1])

chosen == best[1][1]
chosen_my_extensions == best[1][2]
chosen_queue_family_index == best[1][3]

\* C3: among the devices that pass both filters the chosen one has the
\* minimum device-class rank, and of several with that rank it is the one
\* enumerated first; the logical device is created on it.
C3_MinRankFirstWins ==
    Selected =>
        /\ (chosen.id + 1) \in Survivors
        /\ enumerated[chosen.id + 1].device_type = <<chosen.device_type>>
        /\ DeviceTypeRank(chosen.device_type) \in 0..5
        /\ \A j \in Survivors :
              /\ SurvivorRank(j) >= DeviceTypeRank(chosen.device_type)
              /\ SurvivorRank(j) = DeviceTypeRank(chosen.device_type) => j >= chosen.id + 1
        /\ (device /= <<>> => device[1].physical_device = chosen)

\* An integrated device first, then two discrete ones: the first discrete
\* device is the one the context is built on.
C3_Witness ==
    /\ new_pc = "constructed"
    /\ Len(enumerated) = 3
    /\ Survivors = {1, 2, 3}
    /\ enumerated[1].device_type = <<"IntegratedGpu">>
    /\ enumerated[2].device_type = <<"DiscreteGpu">>
    /\ enumerated[3].device_type = <<"DiscreteGpu">>
    /\ chosen.id = 1

\* C4: the chosen device supports every extension of (what the caller's
\* function returned for it) united with the fixed set, and the logical device
\* is created with exactly that union enabled.
C4_ExtensionsSuperset ==
    Selected =>
        /\ (best_runtime \cup device_extensions) \subseteq chosen.supported_extensions
        /\ chosen_my_extensions = best_runtime \cup device_extensions
        /\ (device /= <<>> =>
               /\ device[1].enabled_extensions = best_runtime \cup device_extensions
               /\ device[1].physical_device = chosen)

\* A device was dropped for its extensions, and the context was built on a
\* device that is not discrete, with a runtime extension enabled.
C4_Witness ==
    /\ new_pc = "constructed"
    /\ \E i \in 1..Len(enumerated) : enumerated[i].fate = "no_extensions"
    /\ chosen.device_type /= "DiscreteGpu"
    /\ RuntimeOnlyExtension \in device[1].enabled_extensions

\* C5: the chosen device has a queue family that supports graphics and
\* presenting to the surface, the queue is created on the lowest-index such
\* family, and without a survivor construction panics instead of returning.
C5_QueueFamily ==
    /\ Selected =>
          LET q == chosen.queue_family_properties
              i == chosen_queue_family_index
          IN  /\ (i + 1) \in 1..Len(q)
              /\ q[i + 1].graphics
              /\ q[i + 1].surface_support = "Ok(true)"
              /\ \A j \in 1..i : ~(q[j].graphics /\ q[j].surface_support = "Ok(true)")
              /\ (device /= <<>> => device[1].queue_create_infos = <<i>>)
    /\ (Survivors = {} /\ new_pc \notin {"start", "enumerating"}) => new_pc = "panic"
    /\ (device /= <<>>) => Survivors /= {}

\* The context is built on a device whose first family has graphics only: the
\* queue comes from a later family.
C5_Witness ==
    /\ new_pc = "constructed"
    /\ chosen_queue_family_index >= 1
    /\ chosen.queue_family_properties[1].graphics
    /\ device[1].queue_create_infos = <<chosen_queue_family_index>>

(***************************************************************************)
(* Claims about WlxGraphics::dmabuf_texture                                *)
(***************************************************************************)

InDmaCall == dma_pc /= "idle"

\* C1: a frame with a supported fourcc and a plane count other than 1 makes
\* dmabuf_texture return None, and no panic is reached before it returns.
C1_PlaneCountNeverFatal ==
    (InDmaCall /\ frame.num_planes /= 1 /\ frame.format.fourcc \in SupportedFourcc) =>
        /\ dma_pc /= "panic"
        /\ dma_result /= "Some"
        /\ (dma_pc = "returned" => dma_result = "None")

\* C2: a frame with a supported fourcc and one plane that has no file
\* descriptor makes dmabuf_texture return None without a panic and without a
\* DeviceMemory::import.
C2_MissingFdNeverFatal ==
    (InDmaCall /\ frame.num_planes = 1 /\ frame.planes[1].fd = <<>>
        /\ frame.format.fourcc \in SupportedFourcc) =>
        /\ dma_pc /= "panic"
        /\ imports = 0
        /\ dma_result /= "Some"
        /\ (dma_pc = "returned" => dma_result = "None")

\* C6: ABGR8888 and XBGR8888 become R8G8B8A8_UNORM, ARGB8888 and XRGB8888
\* become B8G8R8A8_UNORM, the image is created with that format, and any
\* other code ends in the panic of the match: nothing is returned.
C6_FourccMapping ==
    (dma_pc \notin {"idle", "fourcc"}) =>
        /\ frame.format.fourcc \in {"DRM_FORMAT_ABGR8888", "DRM_FORMAT_XBGR8888"}
              => format = <<"R8G8B8A8_UNORM">>
        /\ frame.format.fourcc \in {"DRM_FORMAT_ARGB8888", "DRM_FORMAT_XRGB8888"}
              => format = <<"B8G8R8A8_UNORM">>
        /\ frame.format.fourcc \notin
              {"DRM_FORMAT_ABGR8888", "DRM_FORMAT_XBGR8888",
               "DRM_FORMAT_ARGB8888", "DRM_FORMAT_XRGB8888"}
              => (dma_pc = "panic" /\ dma_result = "-" /\ image = <<>>)
        /\ image /= <<>> => image[1].info.format = format[1]

\* An XRGB8888 frame has been imported and returned as a BGRA image.
C6_Witness ==
    /\ dma_result = "Some"
    /\ frame.format.fourcc = "DRM_FORMAT_XRGB8888"
    /\ image[1].info.format = "B8G8R8A8_UNORM"

(***************************************************************************)
(* Claims about WlxPass and WlxCommandBuffer                               *)
(***************************************************************************)

Ops(commands) == [k \in 1..Len(commands) |-> commands[k].op]

Count(commands, op) == Cardinality({ k \in 1..Len(commands) : commands[k].op = op })

\* Render pass instances open after the first k commands.
OpenAfter(commands, k) ==
    Cardinality({ j \in 1..k : commands[j].op = "begin_render_pass" })
        - Cardinality({ j \in 1..k : commands[j].op = "end_render_pass" })

\* begin and end alternate, begin first, and every pass is executed inside.
ProperlyNested(commands) ==
    /\ \A k \in 1..Len(commands) :
          /\ commands[k].op = "begin_render_pass" => OpenAfter(commands, k - 1) = 0
          /\ commands[k].op = "end_render_pass" => OpenAfter(commands, k - 1) = 1
          /\ commands[k].op = "execute_commands" => OpenAfter(commands, k - 1) = 1

\* C7 as claimed: every recording build returns holds exactly one
\* begin-render-pass and exactly one end-render-pass, begin first, with every
\* executed pass between them.
C7_ExactlyOneRenderPass ==
    last_built /= <<>> =>
        LET c == last_built[1].commands
        IN  /\ Count(c, "begin_render_pass") = 1
            /\ Count(c, "end_render_pass") = 1
            /\ \A b, e \in 1..Len(c) :
                  (c[b].op = "begin_render_pass" /\ c[e].op = "end_render_pass") =>
                      /\ b < e
                      /\ \A k \in 1..Len(c) : c[k].op = "execute_commands" => (b < k /\ k < e)

\* C7 as amended: every recording build returns holds as many ends as begins
\* (none, one or several pairs), each begin closed before the next, and every
\* executed pass inside a pair; a builder that is still open is never built:
\* beginning twice, ending without a begin and building with an open render
\* pass all end in a panic.
C7_RenderPassesBalanced ==
    /\ last_built /= <<>> =>
          /\ ProperlyNested(last_built[1].commands)
          /\ OpenAfter(last_built[1].commands, Len(last_built[1].commands)) = 0
    /\ cb /= <<>> =>
          /\ ProperlyNested(cb[1].commands)
          /\ OpenAfter(cb[1].commands, Len(cb[1].commands)) \in {0, 1}
          /\ (cb[1].render_pass_state /= <<>>)
                 <=> (OpenAfter(cb[1].commands, Len(cb[1].commands)) = 1)
    /\ (cmd_pc = "panic" /\ panic_in = "begin_render_pass") =>
          OpenAfter(cb[1].commands, Len(cb[1].commands)) = 1
    /\ (cmd_pc = "panic" /\ panic_in = "end_render_pass") =>
          OpenAfter(cb[1].commands, Len(cb[1].commands)) = 0
    /\ (cmd_pc = "panic" /\ panic_in = "build") =>
          OpenAfter(cb[1].commands, Len(cb[1].commands)) = 1

\* build has returned a recording of one render pass with one pass executed
\* in it.
C7_Witness ==
    /\ last_built /= <<>>
    /\ Ops(last_built[1].commands) =
           << "begin_render_pass", "execute_commands", "end_render_pass" >>

C9_PassRecordsOneIndexedDraw ==
    \A i \in 1..Len(passes) :
        LET c == passes[i].command_buffer
            n == passes[i].index_buffer.len
        IN  /\ Len(c) = 6
            /\ c[1] = [op |-> "set_viewport", args |-> <<0, passes[i].dimensions>>]
            /\ c[2] = [op |-> "bind_pipeline_graphics", args |-> <<passes[i].pipeline>>]
            /\ c[3] = [op |-> "bind_descriptor_sets",
                       args |-> <<0, passes[i].descriptor_sets>>]
            /\ c[4] = [op |-> "bind_vertex_buffers", args |-> <<0, passes[i].vertex_buffer>>]
            /\ c[5] = [op |-> "bind_index_buffer", args |-> <<passes[i].index_buffer>>]
            /\ c[6] = [op |-> "draw_indexed", args |-> <<n, 1, 0, 0, 0>>]
            /\ Cardinality({ k \in 1..Len(c) : c[k].op \in {"draw_indexed", "draw"} }) = 1

\* Two passes exist, one of them over an index buffer of three elements.
C9_Witness ==
    /\ Len(passes) = 2
    /\ passes[1].index_buffer.len = 3
    /\ passes[2].index_buffer.len = 1
    /\ passes[1].dimensions = <<1920, 1080>>

\* C10: once build_and_execute_now has returned, the recording it submitted
\* has completed on the device; and no command buffer the queue still holds
\* has been dropped.
C10_NowReturnsAfterCompletion ==
    /\ now_returned \subseteq completed
    /\ \A k \in 1..Len(queue) : queue[k].command_buffer = "alive"
    /\ cmd_pc = "idle" =>
          \A k \in 1..Len(queue) : queue[k].origin /= "build_and_execute_now"

\* build_and_execute_now has returned for the second recording, while the
\* first one, submitted through a token, was in the queue before it.
C10_Witness ==
    /\ cmd_pc = "idle"
    /\ 2 \in now_returned
    /\ 1 \in completed
    /\ Len(futures) = 1
    /\ futures[1].submitted

(***************************************************************************)
(* Claims about submission, the queue and layout transitions               *)
(***************************************************************************)

\* The ids of the recordings the queue holds.
QueueIds == { queue[k].id : k \in 1..Len(queue) }

\* C11 as claimed: every token build_and_execute has returned stands for a
\* recording that has been submitted to the queue already.
C11_SubmittedAtReturn ==
    \A i \in 1..Len(futures) :
        /\ futures[i].submitted
        /\ futures[i].id \in QueueIds \cup completed

\* C11 as amended: the token build_and_execute returns holds a recording
\* that is not submitted yet; it reaches the queue when the token is first
\* flushed or when it is dropped.  From then on no step takes it out of the
\* queue other than its completion, and it does complete.
C11_SubmittedOnFlushOrDrop ==
    /\ [](\A i \in 1..Len(futures) :
            /\ ~futures[i].submitted =>
                   (futures[i].id \notin QueueIds /\ futures[i].id \notin completed)
            /\ futures[i].submitted => futures[i].id \in QueueIds \cup completed)
    /\ [][ /\ \A id \in QueueIds : id \in QueueIds' \cup completed'
           /\ \A id \in QueueIds' \ QueueIds :
                 /\ next_id' = next_id
                 /\ \/ cmd_pc \in {"now_flush", "drop_flush", "tl_submit"}
                    \/ /\ cmd_pc = "idle"
                       /\ \E i \in 1..Len(futures) :
                             /\ futures[i].id = id
                             /\ ~futures[i].submitted
                             /\ futures'[i].submitted
           /\ completed \subseteq completed' ]_vars
    /\ \A id \in 1..MaxRecordings : (id \in QueueIds) ~> (id \in completed)

\* The caller holds two tokens: the first was flushed and its recording has
\* completed, the second has not been submitted.
C11_Witness ==
    /\ Len(futures) = 2
    /\ futures[1].submitted
    /\ futures[1].id \in completed
    /\ ~futures[2].submitted
    /\ futures[2].id \notin QueueIds

\* The one barrier of a transition_layout submission.
BarrierOf(submission) == submission.recording.commands[1].args[1]

\* C12: what transition_layout submits is a one-time-submit primary
\* recording of exactly one pipeline barrier (transfer write to transfer
\* read, the caller's old and new layout, the whole subresource range of the
\* caller's image); it is submitted once, with the fence created in the
\* call, and that fence is the one returned.  The fence is unsignaled when
\* created, is signaled only by the completion of the barrier, and the call
\* returns without waiting for it.
C12_TransitionLayout ==
    /\ [](/\ \A k \in 1..Len(queue) :
               queue[k].origin = "transition_layout" =>
                   /\ queue[k].recording.usage = "OneTimeSubmit"
                   /\ Len(queue[k].recording.commands) = 1
                   /\ queue[k].recording.commands[1].op = "pipeline_barrier"
                   /\ Len(queue[k].recording.commands[1].args) = 1
                   /\ BarrierOf(queue[k]).src_access = "TRANSFER_WRITE"
                   /\ BarrierOf(queue[k]).dst_access = "TRANSFER_READ"
                   /\ BarrierOf(queue[k]).src_stages = "ALL_TRANSFER"
                   /\ BarrierOf(queue[k]).dst_stages = "ALL_TRANSFER"
                   /\ BarrierOf(queue[k]).subresource_range =
                          <<BarrierOf(queue[k]).image, "full">>
                   /\ queue[k].fence = <<queue[k].id>>
          /\ \A k, l \in 1..Len(queue) : queue[k].id = queue[l].id => k = l
          /\ QueueIds \cap completed = {}
          /\ signaled \subseteq completed
          /\ fences \subseteq QueueIds \cup completed
          /\ (cmd_pc \in {"tl_submit", "tl_return"}) =>
                 (fence /= <<>> /\ fence[1] = tl_command_buffer[1].id)
          /\ cmd_pc = "tl_submit" =>
                 (fence[1] \notin signaled /\ fence[1] \notin QueueIds \cup completed)
          /\ cmd_pc = "tl_return" => ENABLED TlReturn)
    /\ [][ /\ \A img \in ImageChoices, old_layout \in LayoutChoices,
                new_layout \in LayoutChoices :
                  TransitionLayout(img, old_layout, new_layout, TRUE) =>
                      LET b == tl_command_buffer'[1].recording.commands[1].args[1]
                      IN  /\ b.image = img
                          /\ b.old_layout = old_layout
                          /\ b.new_layout = new_layout
           /\ (cmd_pc = "tl_submit" /\ cmd_pc' = "tl_return") =>
                  /\ Len(queue') = Len(queue) + 1
                  /\ queue'[Len(queue')].id = tl_command_buffer[1].id
                  /\ queue'[Len(queue')].recording = tl_command_buffer[1].recording
                  /\ queue'[Len(queue')].fence = fence
                  /\ \A k \in 1..Len(queue) : queue'[k] = queue[k]
           /\ (cmd_pc = "tl_return" /\ cmd_pc' = "idle") =>
                  /\ fences' = fences \cup {fence[1]}
                  /\ QueueIds' = QueueIds
                  /\ completed' = completed
                  /\ signaled' = signaled
           /\ \A k \in 1..Len(queue') :
                  (queue'[k].origin = "transition_layout" /\ queue'[k].id \notin QueueIds) =>
                      cmd_pc = "tl_submit"
           /\ signaled \subseteq signaled'
           /\ (signaled' \ signaled) \subseteq (completed' \ completed) ]_vars

\* transition_layout has returned the fence of a transition from Undefined
\* to TransferSrcOptimal while the barrier is still waiting in the queue and
\* the fence is unsignaled.
C12_Witness ==
    /\ cmd_pc = "idle"
    /\ fences = {1}
    /\ signaled = {}
    /\ Len(queue) = 1
    /\ queue[1].id = 1
    /\ queue[1].state = "pending"
    /\ queue[1].fence = <<1>>
    /\ BarrierOf(queue[1]).old_layout = "Undefined"
    /\ BarrierOf(queue[1]).new_layout = "TransferSrcOptimal"

RECURSIVE Executed(_)
Executed(commands) ==
    IF commands = << >> THEN << >>
    ELSE IF Head(commands).op = "execute_commands"
         THEN << Head(commands).args[1] >> \o Executed(Tail(commands))
         ELSE Executed(Tail(commands))

C15_PassKeepsAlive ==
    /\ \A i \in 1..Len(passes) :
          /\ passes[i].vertex_buffer.name \notin freed
          /\ passes[i].index_buffer.name \notin freed
          /\ \A d \in 1..Len(passes[i].descriptor_sets) :
                passes[i].descriptor_sets[d] \notin freed
          /\ passes[i].pipeline \notin freed
          /\ "graphics" \notin freed
    /\ freed \cap held = {}

\* The caller has dropped every handle of its own; the one pass that is left
\* keeps its buffers, its descriptor set, its pipeline and the context, and
\* the other pipeline is gone.
C15_Witness ==
    /\ held = {}
    /\ Len(passes) = 1
    /\ passes[1].pipeline = "rgba_target"
    /\ passes[1].descriptor_sets = << "sampler_set" >>
    /\ freed = {"bgra_target"}

(***************************************************************************)
(* Claims about texture2d                                                  *)
(***************************************************************************)

\* The images the copies of a command sequence write.
Copies(commands) ==
    { commands[c].args[2] :
        c \in { k \in 1..Len(commands) : commands[k].op = "copy_buffer_to_image" } }

\* The textures whose copy sits in a recording the device has not finished:
\* in the builder, in a token or in `exec`, or in the queue.
CopyOutstanding ==
    UNION { Copies(cb[i].commands) : i \in 1..Len(cb) }
    \cup UNION { Copies(futures[i].recording.commands) :
                   i \in { j \in 1..Len(futures) : futures[j].id \notin completed } }
    \cup UNION { Copies(exec[i].recording.commands) :
                   i \in { j \in 1..Len(exec) : exec[j].id \notin completed } }
    \cup UNION { Copies(queue[k].recording.commands) : k \in 1..Len(queue) }

\* C16: texture2d returns with the staging buffer fully written and the
\* copy recorded, not executed: it submits nothing and waits for nothing, and
\* the image is still undefined.  The image holds the bytes only once the
\* recording with the copy has been submitted and the device has finished
\* it, and it does hold them once that recording has been awaited.
C16_UploadOnlyRecorded ==
    /\ [](/\ \A t \in 1..Len(textures) :
               /\ textures[t].staging = "written"
               /\ textures[t].image \in {"undefined", "uploaded"}
               /\ textures[t].image = "uploaded" => t \notin CopyOutstanding
               /\ (cmd_pc = "idle" /\ t \notin CopyOutstanding) =>
                      textures[t].image = "uploaded")
    /\ [][ /\ Len(textures') > Len(textures) =>
                 /\ Len(textures') = Len(textures) + 1
                 /\ textures'[Len(textures')].image = "undefined"
                 /\ textures'[Len(textures')].staging = "written"
                 /\ Len(textures') \in Copies(cb'[1].commands)
                 /\ queue' = queue
                 /\ completed' = completed
                 /\ cmd_pc = "idle" /\ cmd_pc' = "idle"
           /\ \A t \in 1..Len(textures) :
                 (textures[t].image = "undefined" /\ textures'[t].image = "uploaded") =>
                     \E k \in 1..Len(queue) :
                         /\ t \in Copies(queue[k].recording.commands)
                         /\ queue[k].state = "executing"
                         /\ queue[k].id \in completed' \ completed ]_vars

\* The first texture went through build_and_execute_now and holds its
\* bytes; the copy of the second sits in a token that has not been flushed,
\* and its image is still undefined.
C16_Witness ==
    /\ cmd_pc = "idle"
    /\ Len(textures) = 2
    /\ textures[1].image = "uploaded"
    /\ 1 \in now_returned
    /\ textures[2].image = "undefined"
    /\ Len(futures) = 1
    /\ ~futures[1].submitted
    /\ 2 \in Copies(futures[1].recording.commands)

(***************************************************************************)
(* Claims about the return paths of dmabuf_texture                         *)
(***************************************************************************)

\* C17: the bind is reached only for one plane with a descriptor and a
\* supported fourcc; from there the call always returns: the image with the
\* imported memory bound when the bind succeeds, None when it fails, and it
\* never panics in the bind.
C17_BindDecidesResult ==
    /\ [](/\ imports > 0 =>
               /\ frame.num_planes = 1
               /\ frame.planes[1].fd /= <<>>
               /\ frame.format.fourcc \in SupportedFourcc
          /\ dma_result = "Some" =>
               /\ dma_pc = "returned"
               /\ imports = 1
               /\ image /= <<>>
               /\ image[1].memory = "dedicated_import"
               /\ new_file = "imported"
          /\ (dma_pc = "returned" /\ imports = 1 /\ dma_result /= "Some") =>
               (dma_result = "None" /\ image = <<>>))
    /\ [][ /\ dma_pc = "bind" => dma_pc' = "returned"
           /\ \A ok \in BOOLEAN :
                 DmaBind(ok) => dma_result' = (IF ok THEN "Some" ELSE "None") ]_vars

\* The memory of a one-plane frame was imported, the bind failed, and the
\* call has returned None.
C17_Witness ==
    /\ dma_pc = "returned"
    /\ imports = 1
    /\ dma_result = "None"
    /\ image = <<>>
    /\ frame.num_planes = 1

\* C20: whenever dmabuf_texture has returned, with or without an image,
\* the descriptor of frame.planes[0] is as the caller handed it in: still
\* open if there was one.  The import is given a duplicate, made at most once
\* in a call and only after the plane count and the descriptor have been
\* checked.
C20_CallerFdStaysOpen ==
    /\ dma_pc = "returned" =>
          caller_fd = (IF frame.planes[1].fd = <<>> THEN "absent" ELSE "open")
    /\ dma_pc /= "panic" => caller_fd /= "closed"
    /\ dups_made <= 1
    /\ dups_made = 1 =>
          /\ frame.num_planes = 1
          /\ frame.planes[1].fd /= <<>>
          /\ dma_pc \in {"import", "bind", "returned", "panic"}
    /\ imports <= dups_made
    /\ (new_file /= "none") <=> (dups_made = 1)
    /\ (dma_pc = "returned" /\ (frame.num_planes /= 1 \/ frame.planes[1].fd = <<>>)) =>
          (dups_made = 0 /\ imports = 0)

\* An image was returned: the duplicate went into the imported memory and
\* the caller's descriptor is open.
C20_Witness ==
    /\ dma_pc = "returned"
    /\ dma_result = "Some"
    /\ caller_fd = "open"
    /\ new_file = "imported"
    /\ dups_made = 1
    /\ imports = 1

\* C18 as stated: a call of dmabuf_texture that has returned None was given
\* a frame whose plane count is not one or whose first plane has no
\* descriptor.
C18_OnlyPlanesAndFd ==
    (dma_pc = "returned" /\ dma_result = "None") =>
        (frame.num_planes /= 1 \/ frame.planes[1].fd = None)

\* C18: a failed creation or submission call panics and hands nothing back,
\* in every operation but one: a failed bind of the imported memory returns
\* None.  A call that has returned None was given a plane count other than
\* one, or no descriptor, or its bind failed.
C18_ErrorTiers ==
    /\ []((dma_pc = "returned" /\ dma_result = "None") =>
            \/ frame.num_planes /= 1
            \/ frame.planes[1].fd = None
            \/ (imports = 1 /\ image = None /\ new_file = "closed"))
    /\ [][ /\ (\/ DmaCreateImage(FALSE) \/ DmaFindMemoryType(FALSE)
               \/ DmaDupFd(FALSE) \/ DmaImport(FALSE))
              => (dma_pc' = "panic" /\ dma_result' = dma_result)
           /\ DmaBind(FALSE) => (dma_pc' = "returned" /\ dma_result' = "None")
           /\ (\/ CreatePass("rgba_target", <<1920, 1080>>, VertexBuffer("quad_verts"),
                             IndexBuffer("quad_indices", 6), << "sampler_set" >>, FALSE)
               \/ CreateCommandBuffer("OneTimeSubmit", FALSE)
               \/ Texture2d(FALSE)
               \/ NowFlush(FALSE)
               \/ (exec /= None /\ ~Unwrap(exec).submitted /\ ExecDropFlush(FALSE))
               \/ ExecDropWait(FALSE)
               \/ TransitionLayout("imported_frame", "Undefined", "TransferSrcOptimal", FALSE)
               \/ TlCreateFence(FALSE)
               \/ TlQueueSubmit(FALSE))
              => (/\ cmd_pc' = "panic"
                  /\ Len(queue') = Len(queue)
                  /\ passes' = passes /\ cb' = cb /\ textures' = textures) ]_vars

\* A call of dmabuf_texture for a one-plane frame with a descriptor has
\* returned None because the bind failed, and later the flush of a future
\* that was dropped before its submission failed and panicked.
C18_Witness ==
    /\ dma_pc = "returned" /\ dma_result = "None"
    /\ frame.num_planes = 1 /\ frame.planes[1].fd /= None
    /\ imports = 1
    /\ cmd_pc = "panic" /\ panic_in = "drop"
    /\ exec /= None /\ ~Unwrap(exec).submitted

\* C19 as stated: a submission of transition_layout that is in the queue, its
\* fence not yet signaled by the device, still has its command buffer.
C19_CommandBufferAliveUntilSignaled ==
    \A k \in 1..Len(queue) :
        (queue[k].origin = "transition_layout" /\ queue[k].id \notin completed)
            => queue[k].command_buffer = "alive"

\* C21: the device of every context that new brings forth was created with
\* the caller's runtime set joined with the application's own set, whatever
\* the caller's function returned for the chosen device, so the external
\* memory, external memory fd and DMA-buf extensions are enabled; the three
\* debug assertions of dmabuf_texture are reached only with them enabled and
\* never panic, in a build with debug assertions as in one without.
C21_DebugAssertionsHold ==
    /\ [](/\ device /= None =>
               /\ Unwrap(device).enabled_extensions = best_runtime \cup device_extensions
               /\ DebugAssertionsHold(Unwrap(device).enabled_extensions)
          /\ new_pc = "constructed" => device /= None
          /\ dma_pc /= "idle" => new_pc = "constructed")
    /\ [][ \A debug_assertions \in BOOLEAN :
              DmaDebugAsserts(debug_assertions) => dma_pc' = "planes" ]_vars

\* new looked at two devices or more, chose one for which the caller's
\* function returned a set that names none of the three extensions, and an
\* import on the context it returned has gone past the debug assertions.
C21_Witness ==
    /\ new_pc = "constructed"
    /\ Len(enumerated) >= 2
    /\ best_runtime = {RuntimeOnlyExtension}
    /\ dma_pc = "planes"

====
